---- MODULE Spec2Model ----
(***************************************************************************)
(* Window/tab synchronisation and task-status engine of the editor tab     *)
(* manager (App.tsx).  React state (windows, activeIndex, claudeStatuses)  *)
(* holds the value the next render shows; the refs windowsRef and          *)
(* activeIndexRef are copied from it by the useEffect hooks, which run in  *)
(* a later task (action Commit) unless the update came from a React event  *)
(* handler (a click or a drop), whose render and effects are synchronous.  *)
(* Every handler is one action per stretch of code between two awaits.     *)
(***************************************************************************)
EXTENDS Integers, Sequences, FiniteSets, TLC

VARIABLES
  windows,              \* useState<EditorWindow[]>: the rendered tab list
  activeIndex,          \* useState<number>: the rendered active index (0-based)
  claudeStatuses,       \* useState<Record<string, ClaudeStatus>>: the rendered status map
  windowsRef,           \* windowsRef.current
  activeIndexRef,       \* activeIndexRef.current
  claudeStatusesRef,    \* claudeStatusesRef.current: the raw backend map
  dismissedWaitingRef,  \* dismissedWaitingRef.current: Set<string>
  waitingTimersRef,     \* keys of waitingTimersRef.current: paths with a pending 15 s timer
  tabOrderRef,          \* tabOrderRef.current: string[]
  orderLoadedRef,       \* orderLoadedRef.current
  currentBundleIdRef,   \* currentBundleIdRef.current: string | null
  isEditorActiveRef,    \* isEditorActiveRef.current
  store,                \* tab-order.json: order key -> string[]
  debounce,             \* Date.now() - lastTabClickTimeRef.current < 200
  pendingResets,        \* queue of the 150 ms setTimeout callbacks, each with its captured map
  inflight,             \* async handlers suspended at an await
  notificationEnabledRef, \* notificationEnabledRef.current
  sentNotifications,    \* paths of the send_notification requests of the latest status update
  focusRequests,        \* the focus_editor_window invocations made by the latest step
  isVisibleRef,         \* isVisibleRef.current
  isTabManagerActiveRef, \* isTabManagerActiveRef.current
  tabBarVisible,        \* whether the tab bar window is shown: the last of show() and hide() to resolve
  lastOnPrimaryScreen,  \* is_on_primary_screen of the latest app-activated payload
  editorChanged         \* history: an activation has replaced one editor by another and no
                        \* window list of the new editor has been reconciled since

vars == <<windows, activeIndex, claudeStatuses, windowsRef, activeIndexRef,
          claudeStatusesRef, dismissedWaitingRef, waitingTimersRef, tabOrderRef,
          orderLoadedRef, currentBundleIdRef, isEditorActiveRef, store, debounce,
          pendingResets, inflight, notificationEnabledRef, sentNotifications, focusRequests,
          isVisibleRef, isTabManagerActiveRef, tabBarVisible, lastOnPrimaryScreen,
          editorChanged>>

winVars == <<windows, activeIndex, windowsRef, activeIndexRef>>
statusVars == <<claudeStatuses, claudeStatusesRef, dismissedWaitingRef, waitingTimersRef, pendingResets>>
orderVars == <<tabOrderRef, orderLoadedRef, store>>
notifyVars == <<notificationEnabledRef, sentNotifications>>
visibilityVars == <<isVisibleRef, isTabManagerActiveRef, tabBarVisible, lastOnPrimaryScreen>>

(***************************************************************************)
(* Bounds and input domains                                                *)
(***************************************************************************)
MaxInFlight == 1
MaxResets == 1

NULL == "null"
Names == {"a", "b"}
Bundles == {"X"}
\* two editors, for the claims about a change of editor
EditorBundles == Bundles \cup {"Y"}
\* project paths as their "/"-separated segments; basenames are unique
Paths == {<<"x", "a">>, <<"x", "b">>}
NONE == "none"
StatusValues == {NONE, "waiting", "generating"}
StatusMaps == [Paths -> StatusValues]
EmptyStatuses == [p \in Paths |-> NONE]

\* a.name.localeCompare(b.name) on the names of the model
NameRank == [n \in Names \cup {"c"} |-> CASE n = "a" -> 1 [] n = "b" -> 2 [] OTHER -> 3]
localeCompare(x, y) == NameRank[x] - NameRank[y]

IdOf(n) == NameRank[n]
Win(n) == [id |-> IdOf(n), name |-> n]

RECURSIVE SeqsOver(_, _)
SeqsOver(S, n) ==
  IF n = 0 THEN {<<>>}
  ELSE LET shorter == SeqsOver(S, n - 1)
       IN shorter \cup {Append(s, x) : s \in {t \in shorter : Len(t) = n - 1}, x \in S}

Range(s) == {s[i] : i \in DOMAIN s}
IsInjective(s) == \A i, j \in DOMAIN s : s[i] = s[j] => i = j
\* window enumerations: every list of distinct-name windows, in any order
Snapshots == {s \in SeqsOver({Win(n) : n \in Names}, Cardinality(Names)) : IsInjective(s)}
\* active_index: number | null, the null as an index no window has
NoIndex == -1
\* get_editor_state results: a window list and the frontmost index (null when there is none)
EditorStates ==
  {[windows |-> w, active_index |-> i] : w \in Snapshots, i \in {NoIndex}} \cup
  UNION {{[windows |-> w, active_index |-> i] : i \in 0..(Len(w) - 1)} : w \in Snapshots}

(***************************************************************************)
(* Pure helpers                                                            *)
(***************************************************************************)
lastSegment(path) == path[Len(path)]

Infinity == 1000

getOrderKey(bundleId) == IF bundleId = NULL THEN "default" ELSE bundleId

\* the keys of tab-order.json: one order per editor identity, and the notification setting
OrderKeys == {getOrderKey(b) : b \in EditorBundles \cup {NULL}}
NotificationKey == "notification:enabled"

namesOf(ws) == [i \in DOMAIN ws |-> ws[i].name]

\* orderMap.get(name) ?? Infinity; a later duplicate overwrites an earlier one
orderIndex(order, name) ==
  IF \E i \in DOMAIN order : order[i] = name
  THEN (CHOOSE i \in DOMAIN order : order[i] = name /\ \A j \in DOMAIN order : order[j] = name => j <= i) - 1
  ELSE Infinity

\* compareWindows without the alphabetical rule of lines 79-82
compareWindowsByIndexOnly(a, b, order) ==
  orderIndex(order, a.name) - orderIndex(order, b.name)

compareWindows(a, b, order) ==
  LET indexA == orderIndex(order, a.name)
      indexB == orderIndex(order, b.name)
  IN IF indexA = Infinity /\ indexB = Infinity
     THEN localeCompare(a.name, b.name)
     ELSE indexA - indexB

\* stable insertion of w into a sorted list: after every element that does not compare greater
RECURSIVE insertSorted(_, _, _)
insertSorted(sorted, w, order) ==
  IF sorted = <<>> THEN <<w>>
  ELSE LET last == sorted[Len(sorted)]
       IN IF compareWindows(last, w, order) <= 0
          THEN Append(sorted, w)
          ELSE Append(insertSorted(SubSeq(sorted, 1, Len(sorted) - 1), w, order), last)

RECURSIVE sortPrefix(_, _, _)
sortPrefix(ws, n, order) ==
  IF n = 0 THEN <<>> ELSE insertSorted(sortPrefix(ws, n - 1, order), ws[n], order)

sortWindowsByOrder(ws, order) == sortPrefix(ws, Len(ws), order)

\* sorted.findIndex(w => w.name === name), 0-based, -1 when absent
findIndex(ws, name) ==
  IF \E i \in DOMAIN ws : ws[i].name = name
  THEN (CHOOSE i \in DOMAIN ws : ws[i].name = name /\ \A j \in DOMAIN ws : ws[j].name = name => i <= j) - 1
  ELSE -1

\* whether ws[index] is defined (index is 0-based)
HasWindow(ws, index) == index + 1 \in DOMAIN ws

hasChanged(sorted, currentWindows) ==
  \/ Len(sorted) # Len(currentWindows)
  \/ \E i \in DOMAIN sorted : currentWindows[i].name # sorted[i].name

\* dismissed waiting paths filtered out of a raw map
filterDismissed(statuses, dismissed) ==
  [p \in Paths |-> IF statuses[p] = "waiting" /\ p \in dismissed THEN NONE ELSE statuses[p]]

\* syncWaitingTimer without the cancellation of lines 130-133: the timers armed earlier stay
syncWaitingTimerKeepingTimers(ws, index, statuses, dismissed) ==
  waitingTimersRef \cup
    (IF HasWindow(ws, index)
     THEN {p \in Paths : /\ statuses[p] = "waiting"
                         /\ p \notin dismissed
                         /\ lastSegment(p) = ws[index + 1].name}
     ELSE {})

\* the timers left by syncWaitingTimerRef.current(): all cancelled, then at most one armed
syncWaitingTimer(ws, index, statuses, dismissed) ==
  IF ~HasWindow(ws, index) THEN {}
  ELSE LET activeWindow == ws[index + 1]
           found == {p \in Paths : /\ statuses[p] = "waiting"
                                   /\ p \notin dismissed
                                   /\ lastSegment(p) = activeWindow.name}
       IN IF found = {} THEN {} ELSE {CHOOSE p \in found : TRUE}

(***************************************************************************)
(* Initial state: the refs and states as App() constructs them             *)
(***************************************************************************)
Init ==
  /\ windows = <<>>
  /\ activeIndex = 0
  /\ claudeStatuses = EmptyStatuses
  /\ windowsRef = <<>>
  /\ activeIndexRef = 0
  /\ claudeStatusesRef = EmptyStatuses
  /\ dismissedWaitingRef = {}
  /\ waitingTimersRef = {}
  /\ tabOrderRef = <<>>
  /\ orderLoadedRef = FALSE
  /\ currentBundleIdRef = NULL
  /\ isEditorActiveRef = FALSE
  /\ store = [k \in OrderKeys \cup {NotificationKey} |-> IF k = NotificationKey THEN NULL ELSE <<>>]
  /\ debounce = FALSE
  /\ pendingResets = <<>>
  /\ inflight = {}
  /\ notificationEnabledRef = TRUE
  /\ sentNotifications = {}
  /\ focusRequests = <<>>
  /\ isVisibleRef = TRUE
  /\ isTabManagerActiveRef = FALSE
  /\ tabBarVisible = TRUE
  /\ lastOnPrimaryScreen = FALSE
  /\ editorChanged = FALSE

\* the useEffect hooks of lines 383-389 run: the refs take the rendered state
Commit ==
  /\ windowsRef # windows \/ activeIndexRef # activeIndex
  /\ windowsRef' = windows
  /\ activeIndexRef' = activeIndex
  /\ UNCHANGED <<windows, activeIndex, statusVars, orderVars, currentBundleIdRef,
                 isEditorActiveRef, debounce, inflight>>
  /\ UNCHANGED notifyVars
  /\ UNCHANGED visibilityVars
  /\ UNCHANGED editorChanged
  /\ focusRequests' = <<>>

\* the process is restarted: App() constructs its state and refs anew, tab-order.json stays;
\* the setting saved under "notification:enabled" is read back (lines 166-178)
Restart ==
  /\ windows' = <<>>
  /\ activeIndex' = 0
  /\ claudeStatuses' = EmptyStatuses
  /\ windowsRef' = <<>>
  /\ activeIndexRef' = 0
  /\ claudeStatusesRef' = EmptyStatuses
  /\ dismissedWaitingRef' = {}
  /\ waitingTimersRef' = {}
  /\ tabOrderRef' = <<>>
  /\ orderLoadedRef' = FALSE
  /\ currentBundleIdRef' = NULL
  /\ isEditorActiveRef' = FALSE
  /\ debounce' = FALSE
  /\ pendingResets' = <<>>
  /\ inflight' = {}
  /\ notificationEnabledRef' = (store[NotificationKey] # "false")
  /\ sentNotifications' = {}
  /\ focusRequests' = <<>>
  /\ isVisibleRef' = TRUE
  /\ isTabManagerActiveRef' = FALSE
  /\ tabBarVisible' = TRUE
  /\ lastOnPrimaryScreen' = FALSE
  /\ editorChanged' = FALSE
  /\ UNCHANGED store

(***************************************************************************)
(* Suspended async handlers.  A record per call: the function, the await   *)
(* it is suspended at, and the values it captured before suspending.       *)
(***************************************************************************)
NoPath == <<>>
Call(fn, pc, bundle, path) ==
  [fn |-> fn, pc |-> pc, bundle |-> bundle, path |-> path, app_type |-> NULL]
CanSuspend == Cardinality(inflight) < MaxInFlight

(***************************************************************************)
(* claude-status listener (lines 671-737)                                  *)
(***************************************************************************)
\* completedPaths without the comparison with the previous raw map
completedPathsIgnoringPrev(prev, filtered) ==
  {p \in Paths : filtered[p] = "waiting"}

\* lines 693-695: the paths that went from generating to waiting
completedPaths(prev, filtered) ==
  {p \in Paths : filtered[p] = "waiting" /\ prev[p] = "generating"}

\* the requests without the condition of line 697
requestedNotificationsUngated(prev, filtered) ==
  completedPaths(prev, filtered)

\* lines 697-707: one send_notification per completed path, when enabled and the editor is
\* not the active application
requestedNotifications(prev, filtered) ==
  IF notificationEnabledRef /\ ~isEditorActiveRef THEN completedPaths(prev, filtered) ELSE {}

\* resetPaths computed against the rendered map instead of the previous raw map
resetPathsFromRendered(prev, filtered) ==
  {p \in Paths : filtered[p] = "generating" /\ claudeStatuses[p] = "waiting"}

\* lines 716-718: the paths that went from waiting to generating
resetPaths(prev, filtered) ==
  {p \in Paths : filtered[p] = "generating" /\ prev[p] = "waiting"}

\* the listener without the pruning loop of lines 677-681: dismissed paths are never released
ClaudeStatusKeepingDismissed(newStatuses) ==
  LET prev == claudeStatusesRef
      dismissed == dismissedWaitingRef
      filtered == filterDismissed(newStatuses, dismissed)
      interim == [p \in Paths |-> IF p \in resetPaths(prev, filtered) THEN NONE ELSE filtered[p]]
  IN /\ dismissedWaitingRef' = dismissed
     /\ sentNotifications' = requestedNotifications(prev, filtered)
     /\ claudeStatusesRef' = newStatuses
     /\ waitingTimersRef' = syncWaitingTimer(windowsRef, activeIndexRef, newStatuses, dismissed)
     /\ IF resetPaths(prev, filtered) # {}
        THEN /\ Len(pendingResets) < MaxResets
             /\ claudeStatuses' = interim
             /\ pendingResets' = Append(pendingResets, filtered)
        ELSE /\ claudeStatuses' = filtered
             /\ UNCHANGED pendingResets
     /\ focusRequests' = <<>>
     /\ UNCHANGED <<winVars, orderVars, currentBundleIdRef, isEditorActiveRef, debounce, inflight,
                    notificationEnabledRef>>
     /\ UNCHANGED visibilityVars
     /\ UNCHANGED editorChanged

ClaudeStatus(newStatuses) ==
  LET prev == claudeStatusesRef
      dismissed == {p \in dismissedWaitingRef : newStatuses[p] = "waiting"}
      filtered == filterDismissed(newStatuses, dismissed)
      interim == [p \in Paths |-> IF p \in resetPaths(prev, filtered) THEN NONE ELSE filtered[p]]
  IN /\ dismissedWaitingRef' = dismissed
     /\ sentNotifications' = requestedNotifications(prev, filtered)
     /\ claudeStatusesRef' = newStatuses
     /\ waitingTimersRef' = syncWaitingTimer(windowsRef, activeIndexRef, newStatuses, dismissed)
     /\ IF resetPaths(prev, filtered) # {}
        THEN /\ Len(pendingResets) < MaxResets
             /\ claudeStatuses' = interim
             /\ pendingResets' = Append(pendingResets, filtered)
        ELSE /\ claudeStatuses' = filtered
             /\ UNCHANGED pendingResets
     /\ focusRequests' = <<>>
     /\ UNCHANGED <<winVars, orderVars, currentBundleIdRef, isEditorActiveRef, debounce, inflight,
                    notificationEnabledRef>>
     /\ UNCHANGED visibilityVars
     /\ UNCHANGED editorChanged

\* the 150 ms callback of lines 729-733: the map captured by its status update is rendered
ResetFire ==
  /\ pendingResets # <<>>
  /\ claudeStatuses' = Head(pendingResets)
  /\ pendingResets' = Tail(pendingResets)
  /\ UNCHANGED <<winVars, claudeStatusesRef, dismissedWaitingRef, waitingTimersRef, orderVars,
                 currentBundleIdRef, isEditorActiveRef, debounce, inflight>>
  /\ UNCHANGED notifyVars
  /\ UNCHANGED visibilityVars
  /\ UNCHANGED editorChanged
  /\ focusRequests' = <<>>

\* TimerFire without line 148: the path leaves the rendered map but is not marked dismissed
TimerFireWithoutDismissal(path) ==
  /\ path \in waitingTimersRef
  /\ pendingResets = <<>>
  /\ waitingTimersRef' = waitingTimersRef \ {path}
  /\ IF claudeStatusesRef[path] = "waiting"
     THEN /\ claudeStatuses' = [claudeStatuses EXCEPT ![path] = NONE]
          /\ UNCHANGED dismissedWaitingRef
     ELSE UNCHANGED <<dismissedWaitingRef, claudeStatuses>>
  /\ UNCHANGED <<winVars, claudeStatusesRef, pendingResets, orderVars, currentBundleIdRef,
                 isEditorActiveRef, debounce, inflight>>
  /\ UNCHANGED notifyVars
  /\ UNCHANGED visibilityVars
  /\ UNCHANGED editorChanged
  /\ focusRequests' = <<>>

\* the 15 s callback of lines 145-155.  Every status update re-arms the timer, so a
\* pending timer is never older than a pending 150 ms reset and cannot fire before it.
TimerFire(path) ==
  /\ path \in waitingTimersRef
  /\ pendingResets = <<>>
  /\ waitingTimersRef' = waitingTimersRef \ {path}
  /\ IF claudeStatusesRef[path] = "waiting"
     THEN /\ dismissedWaitingRef' = dismissedWaitingRef \cup {path}
          /\ claudeStatuses' = [claudeStatuses EXCEPT ![path] = NONE]
     ELSE UNCHANGED <<dismissedWaitingRef, claudeStatuses>>
  /\ UNCHANGED <<winVars, claudeStatusesRef, pendingResets, orderVars, currentBundleIdRef,
                 isEditorActiveRef, debounce, inflight>>
  /\ UNCHANGED notifyVars
  /\ UNCHANGED visibilityVars
  /\ UNCHANGED editorChanged
  /\ focusRequests' = <<>>

(***************************************************************************)
(* handleTabClick (lines 462-504), a React onClick handler: the render and *)
(* the effect that copies activeIndex to activeIndexRef follow at once.    *)
(***************************************************************************)
\* waitingKeyOf without the status test of line 478: any reported path of the window's project
waitingKeyOfAnyStatus(window) ==
  {p \in Paths : claudeStatusesRef[p] # NONE /\ lastSegment(p) = window.name}

waitingKeyOf(window) ==
  {p \in Paths : claudeStatusesRef[p] = "waiting" /\ lastSegment(p) = window.name}

\* the arguments of invoke("focus_editor_window", ...); the result is never awaited
focusEditorWindow(bundle_id, window_id) == [bundle_id |-> bundle_id, window_id |-> window_id]

\* handleTabClick without the return of line 464
handleTabClickWithoutSameTabCheck(index) ==
  /\ debounce' = TRUE
  /\ activeIndex' = index
  /\ activeIndexRef' = index
  /\ IF HasWindow(windowsRef, index) /\ currentBundleIdRef # NULL
     THEN LET keys == waitingKeyOf(windowsRef[index + 1])
          IN /\ IF keys # {}
                THEN LET waitingKey == CHOOSE p \in keys : TRUE
                     IN /\ dismissedWaitingRef' = dismissedWaitingRef \cup {waitingKey}
                        /\ claudeStatuses' = [claudeStatuses EXCEPT ![waitingKey] = NONE]
                ELSE UNCHANGED <<dismissedWaitingRef, claudeStatuses>>
             /\ waitingTimersRef' = {}
             /\ focusRequests' = <<focusEditorWindow(currentBundleIdRef, windowsRef[index + 1].id)>>
     ELSE /\ UNCHANGED <<dismissedWaitingRef, claudeStatuses, waitingTimersRef>>
          /\ focusRequests' = <<>>
  /\ UNCHANGED <<windows, windowsRef, claudeStatusesRef, pendingResets, orderVars,
                 currentBundleIdRef, isEditorActiveRef, inflight>>
  /\ UNCHANGED notifyVars
  /\ UNCHANGED visibilityVars
  /\ UNCHANGED editorChanged

handleTabClick(index) ==
  /\ index # activeIndexRef
  /\ debounce' = TRUE
  /\ activeIndex' = index
  /\ activeIndexRef' = index
  /\ IF HasWindow(windowsRef, index) /\ currentBundleIdRef # NULL
     THEN LET keys == waitingKeyOf(windowsRef[index + 1])
          IN /\ IF keys # {}
                THEN LET waitingKey == CHOOSE p \in keys : TRUE
                     IN /\ dismissedWaitingRef' = dismissedWaitingRef \cup {waitingKey}
                        /\ claudeStatuses' = [claudeStatuses EXCEPT ![waitingKey] = NONE]
                ELSE UNCHANGED <<dismissedWaitingRef, claudeStatuses>>
             /\ waitingTimersRef' = {}
             /\ focusRequests' = <<focusEditorWindow(currentBundleIdRef, windowsRef[index + 1].id)>>
     ELSE /\ UNCHANGED <<dismissedWaitingRef, claudeStatuses, waitingTimersRef>>
          /\ focusRequests' = <<>>
  /\ UNCHANGED <<windows, windowsRef, claudeStatusesRef, pendingResets, orderVars,
                 currentBundleIdRef, isEditorActiveRef, inflight>>
  /\ UNCHANGED notifyVars
  /\ UNCHANGED visibilityVars
  /\ UNCHANGED editorChanged

\* 200 ms pass without another click
DebounceElapsed ==
  /\ debounce
  /\ debounce' = FALSE
  /\ UNCHANGED <<winVars, statusVars, orderVars, currentBundleIdRef, isEditorActiveRef, inflight>>
  /\ UNCHANGED notifyVars
  /\ UNCHANGED visibilityVars
  /\ UNCHANGED editorChanged
  /\ focusRequests' = <<>>

(***************************************************************************)
(* switch-to-tab listener (lines 640-651)                                  *)
(***************************************************************************)
SwitchToTab(payload) ==
  /\ payload < Len(windowsRef)
  /\ activeIndex' = payload
  /\ activeIndexRef' = payload
  /\ waitingTimersRef' = syncWaitingTimer(windowsRef, payload, claudeStatusesRef, dismissedWaitingRef)
  /\ focusRequests' = IF HasWindow(windowsRef, payload) /\ currentBundleIdRef # NULL
                       THEN <<focusEditorWindow(currentBundleIdRef, windowsRef[payload + 1].id)>>
                       ELSE <<>>
  /\ UNCHANGED <<windows, windowsRef, claudeStatuses, claudeStatusesRef, dismissedWaitingRef,
                 pendingResets, orderVars, currentBundleIdRef, isEditorActiveRef, debounce, inflight>>
  /\ UNCHANGED notifyVars
  /\ UNCHANGED visibilityVars
  /\ UNCHANGED editorChanged

(***************************************************************************)
(* syncActiveTab (lines 431-459), called on window-focus-changed           *)
(***************************************************************************)
\* syncActiveTab without the check of lines 432-435: the query goes out after a click too
syncActiveTabWithoutDebounce ==
  /\ CanSuspend
  /\ inflight' = inflight \cup {Call("syncActiveTab", "invoke", NULL, NoPath)}
  /\ UNCHANGED <<winVars, statusVars, orderVars, currentBundleIdRef, isEditorActiveRef, debounce>>
  /\ UNCHANGED notifyVars
  /\ UNCHANGED visibilityVars
  /\ UNCHANGED editorChanged
  /\ focusRequests' = <<>>

\* up to the await of get_editor_state; inside the debounce window it returns at once
syncActiveTab ==
  IF debounce
  THEN UNCHANGED vars
  ELSE /\ CanSuspend
       /\ inflight' = inflight \cup {Call("syncActiveTab", "invoke", NULL, NoPath)}
       /\ UNCHANGED <<winVars, statusVars, orderVars, currentBundleIdRef, isEditorActiveRef, debounce>>
       /\ UNCHANGED notifyVars
       /\ UNCHANGED visibilityVars
       /\ UNCHANGED editorChanged
       /\ focusRequests' = <<>>

syncActiveTabResolved(call, state) ==
  /\ call \in inflight
  /\ call.fn = "syncActiveTab"
  /\ inflight' = inflight \ {call}
  /\ LET sorted == sortWindowsByOrder(state.windows, tabOrderRef)
         sortedIndex == IF state.active_index # NoIndex /\ Len(state.windows) > 0
                        THEN findIndex(sorted, state.windows[state.active_index + 1].name)
                        ELSE -1
     IN IF sortedIndex >= 0 /\ sortedIndex # activeIndexRef
        THEN /\ activeIndex' = sortedIndex
             /\ activeIndexRef' = sortedIndex
             /\ waitingTimersRef' =
                  syncWaitingTimer(windowsRef, sortedIndex, claudeStatusesRef, dismissedWaitingRef)
        ELSE UNCHANGED <<activeIndex, activeIndexRef, waitingTimersRef>>
  /\ UNCHANGED <<windows, windowsRef, claudeStatuses, claudeStatusesRef, dismissedWaitingRef,
                 pendingResets, orderVars, currentBundleIdRef, isEditorActiveRef, debounce>>
  /\ UNCHANGED notifyVars
  /\ UNCHANGED visibilityVars
  /\ UNCHANGED editorChanged
  /\ focusRequests' = <<>>

\* the invoke rejects: the catch of lines 456-458
syncActiveTabRejected(call) ==
  /\ call \in inflight
  /\ call.fn = "syncActiveTab"
  /\ inflight' = inflight \ {call}
  /\ UNCHANGED <<winVars, statusVars, orderVars, currentBundleIdRef, isEditorActiveRef, debounce>>
  /\ UNCHANGED notifyVars
  /\ UNCHANGED visibilityVars
  /\ UNCHANGED editorChanged
  /\ focusRequests' = <<>>

(***************************************************************************)
(* refreshWindows (lines 391-428) and fetchWindows (lines 754-784)         *)
(***************************************************************************)
\* windows-changed (and the delayed refreshes): up to the first await
refreshWindows ==
  /\ CanSuspend
  /\ inflight' = inflight \cup
       {IF orderLoadedRef THEN Call("refreshWindows", "invoke", currentBundleIdRef, NoPath)
                          ELSE Call("refreshWindows", "load", currentBundleIdRef, NoPath)}
  /\ UNCHANGED <<winVars, statusVars, orderVars, currentBundleIdRef, isEditorActiveRef, debounce>>
  /\ UNCHANGED notifyVars
  /\ UNCHANGED visibilityVars
  /\ UNCHANGED editorChanged
  /\ focusRequests' = <<>>

\* loadTabOrderResolved reading the key of no editor whatever the bundle id
loadTabOrderResolvedDefaultKey(call) ==
  /\ call \in inflight
  /\ call.fn \in {"refreshWindows", "fetchWindows"}
  /\ call.pc = "load"
  /\ tabOrderRef' = store[getOrderKey(NULL)]
  /\ orderLoadedRef' = TRUE
  /\ inflight' = (inflight \ {call}) \cup {Call(call.fn, "invoke", call.bundle, NoPath)}
  /\ UNCHANGED <<winVars, statusVars, store, currentBundleIdRef, isEditorActiveRef, debounce>>
  /\ UNCHANGED notifyVars
  /\ UNCHANGED visibilityVars
  /\ UNCHANGED editorChanged
  /\ focusRequests' = <<>>

\* loadTabOrder resolves: saved || []
loadTabOrderResolved(call) ==
  /\ call \in inflight
  /\ call.fn \in {"refreshWindows", "fetchWindows"}
  /\ call.pc = "load"
  /\ tabOrderRef' = store[getOrderKey(call.bundle)]
  /\ orderLoadedRef' = TRUE
  /\ inflight' = (inflight \ {call}) \cup {Call(call.fn, "invoke", call.bundle, NoPath)}
  /\ UNCHANGED <<winVars, statusVars, store, currentBundleIdRef, isEditorActiveRef, debounce>>
  /\ UNCHANGED notifyVars
  /\ UNCHANGED visibilityVars
  /\ UNCHANGED editorChanged
  /\ focusRequests' = <<>>

\* getEditorWindowsResolved with a saveTabOrder call where line 411 says not to save
getEditorWindowsResolvedSaving(call, result) ==
  /\ call \in inflight
  /\ call.fn \in {"refreshWindows", "fetchWindows"}
  /\ call.pc = "invoke"
  /\ inflight' = inflight \ {call}
  /\ LET sorted == sortWindowsByOrder(result, tabOrderRef)
         newOrder == namesOf(sorted)
         orderChanged == \/ Len(newOrder) # Len(tabOrderRef)
                         \/ \E i \in DOMAIN newOrder : tabOrderRef[i] # newOrder[i]
     IN /\ tabOrderRef' = IF call.fn = "fetchWindows" \/ orderChanged THEN newOrder ELSE tabOrderRef
        /\ store' = IF orderChanged
                     THEN [store EXCEPT ![getOrderKey(currentBundleIdRef)] = newOrder]
                     ELSE store
        /\ IF hasChanged(sorted, windowsRef)
           THEN /\ windows' = sorted
                /\ activeIndex' = IF Len(sorted) > 0 /\ activeIndexRef >= Len(sorted)
                                  THEN Len(sorted) - 1
                                  ELSE activeIndex
           ELSE UNCHANGED <<windows, activeIndex>>
  /\ UNCHANGED <<windowsRef, activeIndexRef, statusVars, orderLoadedRef,
                 currentBundleIdRef, isEditorActiveRef, debounce>>
  /\ UNCHANGED notifyVars
  /\ UNCHANGED visibilityVars
  /\ editorChanged' = IF call.bundle = currentBundleIdRef THEN FALSE ELSE editorChanged
  /\ focusRequests' = <<>>

\* get_editor_windows resolves with result
getEditorWindowsResolved(call, result) ==
  /\ call \in inflight
  /\ call.fn \in {"refreshWindows", "fetchWindows"}
  /\ call.pc = "invoke"
  /\ inflight' = inflight \ {call}
  /\ LET sorted == sortWindowsByOrder(result, tabOrderRef)
         newOrder == namesOf(sorted)
         orderChanged == \/ Len(newOrder) # Len(tabOrderRef)
                         \/ \E i \in DOMAIN newOrder : tabOrderRef[i] # newOrder[i]
     IN /\ tabOrderRef' = IF call.fn = "fetchWindows" \/ orderChanged THEN newOrder ELSE tabOrderRef
        /\ IF hasChanged(sorted, windowsRef)
           THEN /\ windows' = sorted
                /\ activeIndex' = IF Len(sorted) > 0 /\ activeIndexRef >= Len(sorted)
                                  THEN Len(sorted) - 1
                                  ELSE activeIndex
           ELSE UNCHANGED <<windows, activeIndex>>
  /\ UNCHANGED <<windowsRef, activeIndexRef, statusVars, orderLoadedRef, store,
                 currentBundleIdRef, isEditorActiveRef, debounce>>
  /\ UNCHANGED notifyVars
  /\ UNCHANGED visibilityVars
  /\ editorChanged' = IF call.bundle = currentBundleIdRef THEN FALSE ELSE editorChanged
  /\ focusRequests' = <<>>

\* getEditorWindowsRejected with a catch block that empties the view
getEditorWindowsRejectedClearingView(call) ==
  /\ call \in inflight
  /\ call.fn \in {"refreshWindows", "fetchWindows"}
  /\ call.pc = "invoke"
  /\ inflight' = inflight \ {call}
  /\ windows' = <<>>
  /\ activeIndex' = 0
  /\ UNCHANGED <<windowsRef, activeIndexRef, statusVars, orderVars, currentBundleIdRef,
                 isEditorActiveRef, debounce>>
  /\ UNCHANGED notifyVars
  /\ UNCHANGED visibilityVars
  /\ UNCHANGED editorChanged
  /\ focusRequests' = <<>>

\* get_editor_windows rejects: the catch blocks of lines 425-427 and 781-783
getEditorWindowsRejected(call) ==
  /\ call \in inflight
  /\ call.fn \in {"refreshWindows", "fetchWindows"}
  /\ call.pc = "invoke"
  /\ inflight' = inflight \ {call}
  /\ UNCHANGED <<winVars, statusVars, orderVars, currentBundleIdRef, isEditorActiveRef, debounce>>
  /\ UNCHANGED notifyVars
  /\ UNCHANGED visibilityVars
  /\ UNCHANGED editorChanged
  /\ focusRequests' = <<>>

(***************************************************************************)
(* handleReorder (lines 543-575), called from the drop handler of a tab    *)
(***************************************************************************)
\* newWindows.splice(fromIndex, 1); newWindows.splice(toIndex, 0, moved)   (0-based)
\* moveWindow exchanging the two positions instead of splicing
moveWindowSwapping(ws, fromIndex, toIndex) ==
  [i \in 1..Len(ws) |-> IF i = fromIndex + 1 THEN ws[toIndex + 1]
                        ELSE IF i = toIndex + 1 THEN ws[fromIndex + 1]
                        ELSE ws[i]]

moveWindow(ws, fromIndex, toIndex) ==
  LET moved == ws[fromIndex + 1]
      rest == [i \in 1..(Len(ws) - 1) |-> IF i <= fromIndex THEN ws[i] ELSE ws[i + 1]]
  IN [i \in 1..Len(ws) |-> IF i <= toIndex THEN rest[i]
                           ELSE IF i = toIndex + 1 THEN moved
                           ELSE rest[i - 1]]

\* reorderActiveIndex without the adjustment of lines 561-571
reorderActiveIndexUnadjusted(active, fromIndex, toIndex) ==
  active

reorderActiveIndex(active, fromIndex, toIndex) ==
  IF fromIndex = active THEN toIndex
  ELSE IF fromIndex < active /\ toIndex >= active THEN active - 1
  ELSE IF fromIndex > active /\ toIndex <= active THEN active + 1
  ELSE active

handleReorder(fromIndex, toIndex) ==
  /\ fromIndex >= 0 /\ fromIndex < Len(windowsRef)
  /\ toIndex >= 0 /\ toIndex < Len(windowsRef)
  /\ LET newWindows == moveWindow(windowsRef, fromIndex, toIndex)
         newOrder == namesOf(newWindows)
         newActiveIndex == reorderActiveIndex(activeIndexRef, fromIndex, toIndex)
     IN /\ tabOrderRef' = newOrder
        /\ store' = [store EXCEPT ![getOrderKey(currentBundleIdRef)] = newOrder]
        /\ windows' = newWindows
        /\ windowsRef' = newWindows
        /\ activeIndex' = newActiveIndex
        /\ activeIndexRef' = newActiveIndex
  /\ UNCHANGED <<statusVars, orderLoadedRef, currentBundleIdRef, isEditorActiveRef, debounce, inflight>>
  /\ UNCHANGED notifyVars
  /\ UNCHANGED visibilityVars
  /\ UNCHANGED editorChanged
  /\ focusRequests' = <<>>

(***************************************************************************)
(* notification-clicked listener (lines 191-230)                           *)
(***************************************************************************)
\* up to the await of appWindow.show()
notificationClicked(projectPath) ==
  /\ currentBundleIdRef # NULL
  /\ CanSuspend
  /\ inflight' = inflight \cup {Call("notificationClicked", "show", currentBundleIdRef, projectPath)}
  /\ UNCHANGED <<winVars, statusVars, orderVars, currentBundleIdRef, isEditorActiveRef, debounce>>
  /\ UNCHANGED notifyVars
  /\ UNCHANGED visibilityVars
  /\ UNCHANGED editorChanged
  /\ focusRequests' = <<>>

\* notificationClickedShown without the clearTimeout/delete of lines 211-215
notificationClickedShownKeepingTimer(call) ==
  /\ call \in inflight
  /\ call.fn = "notificationClicked"
  /\ call.pc = "show"
  /\ inflight' = (inflight \ {call}) \cup {[call EXCEPT !.pc = "wait"]}
  /\ IF claudeStatusesRef[call.path] = "waiting"
     THEN /\ dismissedWaitingRef' = dismissedWaitingRef \cup {call.path}
          /\ claudeStatuses' = [claudeStatuses EXCEPT ![call.path] = NONE]
     ELSE UNCHANGED <<dismissedWaitingRef, claudeStatuses>>
  /\ UNCHANGED <<winVars, claudeStatusesRef, waitingTimersRef, pendingResets, orderVars,
                 currentBundleIdRef, isEditorActiveRef, debounce>>
  /\ UNCHANGED notifyVars
  /\ isVisibleRef' = TRUE
  /\ tabBarVisible' = TRUE
  /\ UNCHANGED <<isTabManagerActiveRef, lastOnPrimaryScreen>>
  /\ UNCHANGED editorChanged
  /\ focusRequests' = <<>>

\* from show() resolving to the 500 ms wait: the tab bar is shown and the waiting badge is
\* dismissed
notificationClickedShown(call) ==
  /\ call \in inflight
  /\ call.fn = "notificationClicked"
  /\ call.pc = "show"
  /\ inflight' = (inflight \ {call}) \cup {[call EXCEPT !.pc = "wait"]}
  /\ IF claudeStatusesRef[call.path] = "waiting"
     THEN /\ dismissedWaitingRef' = dismissedWaitingRef \cup {call.path}
          /\ claudeStatuses' = [claudeStatuses EXCEPT ![call.path] = NONE]
          /\ waitingTimersRef' = waitingTimersRef \ {call.path}
     ELSE UNCHANGED <<dismissedWaitingRef, claudeStatuses, waitingTimersRef>>
  /\ UNCHANGED <<winVars, claudeStatusesRef, pendingResets, orderVars, currentBundleIdRef,
                 isEditorActiveRef, debounce>>
  /\ UNCHANGED notifyVars
  /\ isVisibleRef' = TRUE
  /\ tabBarVisible' = TRUE
  /\ UNCHANGED <<isTabManagerActiveRef, lastOnPrimaryScreen>>
  /\ UNCHANGED editorChanged
  /\ focusRequests' = <<>>

\* after the 500 ms wait: the window named after the project is focused, or else the first one
notificationClickedFocus(call) ==
  /\ call \in inflight
  /\ call.fn = "notificationClicked"
  /\ call.pc = "wait"
  /\ inflight' = inflight \ {call}
  /\ LET win == findIndex(windowsRef, lastSegment(call.path))
     IN focusRequests' =
          IF win >= 0 THEN <<focusEditorWindow(call.bundle, windowsRef[win + 1].id)>>
          ELSE IF Len(windowsRef) > 0 THEN <<focusEditorWindow(call.bundle, windowsRef[1].id)>>
          ELSE <<>>
  /\ UNCHANGED <<winVars, statusVars, orderVars, currentBundleIdRef, isEditorActiveRef, debounce>>
  /\ UNCHANGED notifyVars
  /\ UNCHANGED visibilityVars
  /\ UNCHANGED editorChanged

(***************************************************************************)
(* handleNotificationToggle (lines 238-247), called from the settings      *)
(***************************************************************************)
\* the boolean as the store file holds it
toJSON(enabled) == IF enabled THEN "true" ELSE "false"

handleNotificationToggle(enabled) ==
  /\ notificationEnabledRef' = enabled
  /\ store' = [store EXCEPT ![NotificationKey] = toJSON(enabled)]
  /\ UNCHANGED <<winVars, statusVars, tabOrderRef, orderLoadedRef, currentBundleIdRef,
                 isEditorActiveRef, debounce, inflight, sentNotifications>>
  /\ focusRequests' = <<>>
  /\ UNCHANGED visibilityVars
  /\ UNCHANGED editorChanged

(***************************************************************************)
(* app-activated listener (lines 817-868)                                  *)
(***************************************************************************)
\* the call of an app-activated handler suspended at appWindow.show() or appWindow.hide()
ActivationCall(pc, app_type, bundle_id) ==
  [Call("appActivated", pc, bundle_id, NoPath) EXCEPT !.app_type = app_type]

\* fetchWindows(bundle_id) up to its first await (lines 754-766)
fetchWindowsCall(bundle_id) ==
  LET targetBundleId == IF bundle_id # NULL THEN bundle_id ELSE currentBundleIdRef'
      reload == ~orderLoadedRef' \/ (bundle_id # NULL /\ bundle_id # currentBundleIdRef')
  IN IF reload THEN Call("fetchWindows", "load", targetBundleId, NoPath)
               ELSE Call("fetchWindows", "invoke", targetBundleId, NoPath)

\* up to the first await: show() when the tab bar is hidden, else fetchWindows for an editor;
\* hide() for another application on the primary screen when the tab bar is shown.  The
\* handler starts while fewer than limit handlers are suspended.
appActivatedWithin(limit, app_type, bundle_id, is_on_primary_screen) ==
  /\ lastOnPrimaryScreen' = is_on_primary_screen
  /\ IF app_type \in {"editor", "tab_manager"}
     THEN /\ isEditorActiveRef' = (app_type = "editor")
          /\ isTabManagerActiveRef' = (app_type = "tab_manager")
          /\ currentBundleIdRef' = IF app_type = "editor" /\ bundle_id # NULL
                                   THEN bundle_id ELSE currentBundleIdRef
          /\ orderLoadedRef' = IF app_type = "editor" /\ bundle_id # NULL /\ bundle_id # currentBundleIdRef
                               THEN FALSE ELSE orderLoadedRef
          /\ IF ~isVisibleRef
             THEN /\ Cardinality(inflight) < limit
                  /\ inflight' = inflight \cup {ActivationCall("show", app_type, bundle_id)}
             ELSE IF app_type = "editor"
             THEN /\ Cardinality(inflight) < limit
                  /\ inflight' = inflight \cup {fetchWindowsCall(bundle_id)}
             ELSE UNCHANGED inflight
     ELSE /\ isEditorActiveRef' = FALSE
          /\ isTabManagerActiveRef' = FALSE
          /\ UNCHANGED <<currentBundleIdRef, orderLoadedRef>>
          /\ IF is_on_primary_screen /\ isVisibleRef
             THEN /\ Cardinality(inflight) < limit
                  /\ inflight' = inflight \cup {ActivationCall("hide", app_type, NULL)}
             ELSE UNCHANGED inflight
  /\ UNCHANGED <<winVars, statusVars, tabOrderRef, store, debounce>>
  /\ UNCHANGED notifyVars
  /\ UNCHANGED <<isVisibleRef, tabBarVisible>>
  /\ editorChanged' = (editorChanged \/ (/\ app_type = "editor" /\ bundle_id # NULL
                                         /\ currentBundleIdRef # NULL /\ bundle_id # currentBundleIdRef))
  /\ focusRequests' = <<>>

appActivated(app_type, bundle_id, is_on_primary_screen) ==
  appActivatedWithin(MaxInFlight, app_type, bundle_id, is_on_primary_screen)

\* appWindow.show() resolves (lines 836-837): the tab bar is shown; an editor's handler goes
\* on to fetchWindows
appActivatedShown(call) ==
  /\ call \in inflight
  /\ call.fn = "appActivated"
  /\ call.pc = "show"
  /\ isVisibleRef' = TRUE
  /\ tabBarVisible' = TRUE
  /\ UNCHANGED <<currentBundleIdRef, orderLoadedRef>>
  /\ inflight' = (inflight \ {call}) \cup
                   (IF call.app_type = "editor" THEN {fetchWindowsCall(call.bundle)} ELSE {})
  /\ UNCHANGED <<winVars, statusVars, tabOrderRef, store, isEditorActiveRef, debounce>>
  /\ UNCHANGED notifyVars
  /\ UNCHANGED <<isTabManagerActiveRef, lastOnPrimaryScreen>>
  /\ UNCHANGED editorChanged
  /\ focusRequests' = <<>>

\* appWindow.hide() resolves (lines 862-863): the tab bar is hidden
appActivatedHidden(call) ==
  /\ call \in inflight
  /\ call.fn = "appActivated"
  /\ call.pc = "hide"
  /\ isVisibleRef' = FALSE
  /\ tabBarVisible' = FALSE
  /\ inflight' = inflight \ {call}
  /\ UNCHANGED <<winVars, statusVars, orderVars, currentBundleIdRef, isEditorActiveRef, debounce>>
  /\ UNCHANGED notifyVars
  /\ UNCHANGED <<isTabManagerActiveRef, lastOnPrimaryScreen>>
  /\ UNCHANGED editorChanged
  /\ focusRequests' = <<>>

(***************************************************************************)
(* The events of the environment and the specification                     *)
(***************************************************************************)
ClickableIndices == 0..(IF Len(windows) > Len(windowsRef) THEN Len(windows) ELSE Len(windowsRef)) - 1
TabIndices == 0..Cardinality(Names)

\* status payloads that report the project of tab "a" only
OneProjectMaps == {m \in StatusMaps : \A p \in Paths : lastSegment(p) # "a" => m[p] = NONE}
\* status payloads in which every project is waiting or absent
WaitingMaps == {m \in StatusMaps : \A p \in Paths : m[p] # "generating"}

\* tab activity: clicks, shortcuts, focus syncs, window-list refreshes, editor activation
TabEvents ==
  \/ Commit
  \/ \E i \in ClickableIndices : handleTabClick(i)
  \/ DebounceElapsed
  \/ \E k \in TabIndices : SwitchToTab(k)
  \/ syncActiveTab
  \/ \E c \in inflight, st \in EditorStates : syncActiveTabResolved(c, st)
  \/ \E c \in inflight : syncActiveTabRejected(c)
  \/ refreshWindows
  \/ \E c \in inflight : loadTabOrderResolved(c)
  \/ \E c \in inflight, r \in Snapshots : getEditorWindowsResolved(c, r)
  \/ \E c \in inflight : getEditorWindowsRejected(c)
  \/ \E b \in Bundles : appActivated("editor", b, TRUE)

\* the status stream, the 15 s timers and the notification clicks
StatusEvents(maps) ==
  \/ \E s \in maps : ClaudeStatus(s)
  \/ \E p \in Paths : TimerFire(p)
  \/ \E p \in Paths : notificationClicked(p)
  \/ \E c \in inflight : notificationClickedShown(c)
  \/ \E c \in inflight : notificationClickedFocus(c)

\* the engine with one project reporting waiting and generating
Next ==
  \/ TabEvents
  \/ StatusEvents(OneProjectMaps)
  \/ ResetFire

Spec == Init /\ [][Next]_vars

\* the engine with every project reporting waiting
NextWaiting ==
  \/ TabEvents
  \/ StatusEvents(WaitingMaps)

SpecWaiting == Init /\ [][NextWaiting]_vars

\* app_type of an app-activated payload: the editor, or any other application; where these
\* are used the editor is on the primary screen and the other application on a secondary one
AppTypes == {"editor", "other"}

\* the notification side with one project: its status stream, the editor going to the
\* background, the notification setting, and the dismissals by click and timer
NextNotify ==
  \/ \E s \in OneProjectMaps : ClaudeStatus(s)
  \/ ResetFire
  \/ \E p \in Paths : TimerFire(p)
  \/ \E enabled \in BOOLEAN : handleNotificationToggle(enabled)
  \/ \E ty \in AppTypes, b \in Bundles : appActivated(ty, b, ty = "editor")
  \/ \E c \in inflight : loadTabOrderResolved(c)
  \/ \E c \in inflight, r \in Snapshots : getEditorWindowsResolved(c, r)
  \/ \E c \in inflight : getEditorWindowsRejected(c)
  \/ Commit
  \/ \E i \in ClickableIndices : handleTabClick(i)
  \/ DebounceElapsed

SpecNotify == Init /\ [][NextNotify]_vars

\* the notification side with every status payload of two projects, before any window list
NextNotifyAll ==
  \/ \E s \in StatusMaps : ClaudeStatus(s)
  \/ ResetFire
  \/ \E enabled \in BOOLEAN : handleNotificationToggle(enabled)
  \/ \E ty \in AppTypes, b \in Bundles : appActivated(ty, b, ty = "editor")
  \/ \E c \in inflight : loadTabOrderResolved(c)
  \/ \E c \in inflight : getEditorWindowsRejected(c)

SpecNotifyAll == Init /\ [][NextNotifyAll]_vars

\* notifications and their clicks next to the window list of one editor
NextClick ==
  \/ \E s \in OneProjectMaps : ClaudeStatus(s)
  \/ ResetFire
  \/ \E p \in Paths : notificationClicked(p)
  \/ \E c \in inflight : notificationClickedShown(c)
  \/ \E c \in inflight : notificationClickedFocus(c)
  \/ \E b \in Bundles : appActivated("editor", b, TRUE)
  \/ refreshWindows
  \/ \E c \in inflight : loadTabOrderResolved(c)
  \/ \E c \in inflight, r \in Snapshots : getEditorWindowsResolved(c, r)
  \/ \E c \in inflight : getEditorWindowsRejected(c)
  \/ Commit

\* appWindow.show() resolves and the 500 ms wait of line 221 ends: a handler suspended there
\* is resumed
SpecClick ==
  /\ Init
  /\ [][NextClick]_vars
  /\ WF_vars(\E c \in inflight : notificationClickedShown(c))
  /\ WF_vars(\E c \in inflight : notificationClickedFocus(c))

\* app_type of an app-activated payload with the tab manager itself among the applications
ActivationTypes == {"editor", "tab_manager", "other"}

\* applications are activated on either screen; the handlers of these events overlap at
\* their awaits with each other and with the window-list queries they start
NextVisible ==
  \/ \E ty \in ActivationTypes, b \in Bundles, primary \in BOOLEAN : appActivated(ty, b, primary)
  \/ \E c \in inflight : appActivatedShown(c)
  \/ \E c \in inflight : appActivatedHidden(c)
  \/ \E c \in inflight : loadTabOrderResolved(c)
  \/ \E c \in inflight, r \in Snapshots : getEditorWindowsResolved(c, r)
  \/ \E c \in inflight : getEditorWindowsRejected(c)
  \/ Commit

SpecVisible == Init /\ [][NextVisible]_vars

\* two editors take turns: the activation of one arrives while the window-list query of
\* the other may still be pending, and the tabs of either are dragged
NextBundles ==
  \/ \E b \in EditorBundles : appActivatedWithin(MaxInFlight + 1, "editor", b, TRUE)
  \/ \E c \in inflight : loadTabOrderResolved(c)
  \/ \E c \in inflight, r \in Snapshots : getEditorWindowsResolved(c, r)
  \/ Commit
  \/ \E f, t \in TabIndices : handleReorder(f, t)

SpecBundles == Init /\ [][NextBundles]_vars

\* a status value outside the ClaudeStatus type of line 95, as a payload may carry it
Unrecognised == "stopped"
PayloadMaps == [Paths -> StatusValues \cup {Unrecognised}]

\* the status stream with payloads that hold entries of any status value
NextPayload ==
  \/ \E s \in PayloadMaps : ClaudeStatus(s)
  \/ ResetFire
  \/ \E enabled \in BOOLEAN : handleNotificationToggle(enabled)

SpecPayload == Init /\ [][NextPayload]_vars

\* three window names, for the sort: snapshots and the orders an earlier run may have stored
SortNames == Names \cup {"c"}
SortSnapshots == {s \in SeqsOver({Win(n) : n \in SortNames}, Cardinality(SortNames)) : IsInjective(s)}
StoredOrders == {o \in SeqsOver(SortNames, Cardinality(SortNames)) : IsInjective(o)}

\* App() is constructed while tab-order.json holds an order saved by an earlier run
InitSort ==
  /\ windows = <<>>
  /\ activeIndex = 0
  /\ claudeStatuses = EmptyStatuses
  /\ windowsRef = <<>>
  /\ activeIndexRef = 0
  /\ claudeStatusesRef = EmptyStatuses
  /\ dismissedWaitingRef = {}
  /\ waitingTimersRef = {}
  /\ tabOrderRef = <<>>
  /\ orderLoadedRef = FALSE
  /\ currentBundleIdRef = NULL
  /\ isEditorActiveRef = FALSE
  /\ store \in {[k \in OrderKeys \cup {NotificationKey} |->
                   IF k = NotificationKey THEN NULL ELSE IF k = "X" THEN o ELSE <<>>] :
                o \in StoredOrders}
  /\ debounce = FALSE
  /\ pendingResets = <<>>
  /\ inflight = {}
  /\ notificationEnabledRef = TRUE
  /\ sentNotifications = {}
  /\ focusRequests = <<>>
  /\ isVisibleRef = TRUE
  /\ isTabManagerActiveRef = FALSE
  /\ tabBarVisible = TRUE
  /\ lastOnPrimaryScreen = FALSE
  /\ editorChanged = FALSE

\* the window list of an editor with up to three windows, refreshed on activation and on
\* windows-changed
NextSort ==
  \/ \E b \in Bundles : appActivated("editor", b, TRUE)
  \/ refreshWindows
  \/ \E c \in inflight : loadTabOrderResolved(c)
  \/ \E c \in inflight, r \in SortSnapshots : getEditorWindowsResolved(c, r)
  \/ \E c \in inflight : getEditorWindowsRejected(c)
  \/ Commit

SpecSort == InitSort /\ [][NextSort]_vars

\* drag positions of a drop: every tab position of three windows and one on either side
ReorderIndices == -1..Cardinality(SortNames)

\* the window lists of an editor with two or three windows open
ReorderSnapshots == {s \in SortSnapshots : Len(s) >= 2}

\* an editor with two or three windows whose tabs are dragged and switched
NextReorder ==
  \/ \E b \in Bundles : appActivated("editor", b, TRUE)
  \/ \E c \in inflight : loadTabOrderResolved(c)
  \/ \E c \in inflight, r \in ReorderSnapshots : getEditorWindowsResolved(c, r)
  \/ Commit
  \/ \E k \in 0..Cardinality(SortNames) : SwitchToTab(k)
  \/ \E f, t \in ReorderIndices : handleReorder(f, t)

SpecReorder == Init /\ [][NextReorder]_vars

\* the tab list alone: no status stream; the user reorders tabs and restarts the app
NextTabs ==
  \/ TabEvents
  \/ \E f, t \in TabIndices : handleReorder(f, t)
  \/ Restart

SpecTabs == Init /\ [][NextTabs]_vars

(***************************************************************************)
(* Properties                                                              *)
(***************************************************************************)
nameSet(ws) == {ws[i].name : i \in DOMAIN ws}
RefsInSync == windowsRef = windows /\ activeIndexRef = activeIndex
\* no handler is suspended and no reset callback is pending
Quiescent == inflight = {} /\ pendingResets = <<>>
\* path p belongs to the tab at the rendered active index
IsActivePath(p) == HasWindow(windows, activeIndex) /\ windows[activeIndex + 1].name = lastSegment(p)
SnapshotResolved == \E c \in inflight, r \in Snapshots : getEditorWindowsResolved(c, r)

\* C1: a processed snapshot response leaves the view with exactly the snapshot's names,
\* and no other step adds or removes a name of the view.
C1_ViewNamesEqualSnapshot ==
  [][/\ \A c \in inflight, r \in Snapshots :
          getEditorWindowsResolved(c, r) => nameSet(windows') = nameSet(r)
     /\ ~SnapshotResolved => nameSet(windows') = nameSet(windows)]_vars

\* C2: with no reset delay pending, the rendered status map is the raw map without the
\* raw-waiting paths of the dismissed set.
C2_RenderedIsRawMinusDismissed ==
  pendingResets = <<>> => claudeStatuses = filterDismissed(claudeStatusesRef, dismissedWaitingRef)

\* C3: a focus sync handled inside the debounce window of a click returns without issuing a
\* query and without changing the active index or anything else.
C3_DebouncedSyncIsNoOp ==
  [][(debounce /\ syncActiveTab) => (activeIndex' = activeIndex /\ inflight' = inflight /\ UNCHANGED vars)]_vars

\* a tab was clicked less than 200 ms ago and a focus event can be handled now
C3_Witness ==
  /\ debounce
  /\ Len(windows) = 2
  /\ activeIndex = 1
  /\ RefsInSync
  /\ inflight = {}

\* the frontmost window of a get_editor_state result sits at the new active index of the
\* list sorted by the custom order
AdoptsFrontmost(state) ==
  LET sorted == sortWindowsByOrder(state.windows, tabOrderRef)
  IN /\ HasWindow(sorted, activeIndex')
     /\ sorted[activeIndex' + 1].name = state.windows[state.active_index + 1].name
     /\ \A j \in 1..activeIndex' : sorted[j].name # state.windows[state.active_index + 1].name

\* the frontmost window of a result maps to a sorted index other than index
FrontmostDiffersFrom(state, index) ==
  /\ state.active_index # NoIndex
  /\ LET sorted == sortWindowsByOrder(state.windows, tabOrderRef)
     IN ~(HasWindow(sorted, index) /\ sorted[index + 1].name = state.windows[state.active_index + 1].name)

\* C4: a focus sync that passed the debounce check sets the active index to the sorted index
\* of the frontmost window whenever that index differs from the active index.
C4_AdoptsFrontmostWhenDifferent ==
  [][\A c \in inflight, st \in EditorStates :
       (syncActiveTabResolved(c, st) /\ FrontmostDiffersFrom(st, activeIndex)) => AdoptsFrontmost(st)]_vars

\* C5: a focus sync that started before a tab click does not overwrite the index set by the
\* click: inside the debounce window no focus-sync result changes the active index.
C5_SyncNeverOverwritesClick ==
  [][(debounce /\ \E c \in inflight, st \in EditorStates : syncActiveTabResolved(c, st))
       => activeIndex' = activeIndex]_vars

\* C6: when a raw-waiting, undismissed path belongs to the active tab and nothing else is
\* in progress, a timer is pending whose firing dismisses the path and removes it from the view.
C6_ActiveWaitingIsAutoDismissed ==
  \A p \in Paths :
    (claudeStatusesRef[p] = "waiting" /\ p \notin dismissedWaitingRef /\ IsActivePath(p)
       /\ RefsInSync /\ Quiescent)
    => ENABLED (TimerFire(p) /\ p \in dismissedWaitingRef' /\ claudeStatuses'[p] = NONE)

\* C7: at most one auto-dismiss timer is pending.
C7_AtMostOneTimer == Cardinality(waitingTimersRef) <= 1

\* two projects wait undismissed and the timer of one of them is pending
C7_Witness ==
  /\ Cardinality(waitingTimersRef) = 1
  /\ \A p \in Paths : claudeStatusesRef[p] = "waiting" /\ p \notin dismissedWaitingRef

\* C8: a pending timer is bound to the path of the tab at the active index.
C8_TimerBoundToActiveTab ==
  RefsInSync => \A p \in waitingTimersRef : IsActivePath(p)

\* C9: once the handlers have completed, the raw-waiting, undismissed path of the active tab
\* has a pending timer.
C9_ActiveWaitingHasTimer ==
  (RefsInSync /\ inflight = {}) =>
    \A p \in Paths :
      (claudeStatusesRef[p] = "waiting" /\ p \notin dismissedWaitingRef /\ IsActivePath(p))
        => p \in waitingTimersRef

\* C10: a path with a pending timer is raw-waiting and not dismissed.
C10_TimerOnlyForUndismissedWaiting ==
  \A p \in waitingTimersRef : claudeStatusesRef[p] = "waiting" /\ p \notin dismissedWaitingRef

\* a timer is pending for the path a notification click is about to dismiss
C10_Witness ==
  \E c \in inflight :
    /\ c.fn = "notificationClicked"
    /\ c.pc = "show"
    /\ c.path \in waitingTimersRef

\* C11: every path of the dismissed set is raw-waiting.
C11_DismissedOnlyRawWaiting ==
  \A p \in dismissedWaitingRef : claudeStatusesRef[p] = "waiting"

\* a path was dismissed while raw-waiting and a status update can now report it otherwise
C11_Witness ==
  \E p \in Paths :
    /\ p \in dismissedWaitingRef
    /\ claudeStatusesRef[p] = "waiting"
    /\ claudeStatuses[p] = NONE
    /\ pendingResets = <<>>

\* path p is raw-waiting and dismissed, and the update newStatuses reports it as generating
DismissedTurnsGenerating(p, newStatuses) ==
  /\ claudeStatusesRef[p] = "waiting"
  /\ p \in dismissedWaitingRef
  /\ newStatuses[p] = "generating"
  /\ ClaudeStatus(newStatuses)

\* C12: a status update that reports a dismissed, raw-waiting path as generating removes the
\* path from the dismissed set, and the view that update emits shows the path as generating.
C12_UndismissedAndShownGenerating ==
  [][\A p \in Paths, s \in StatusMaps :
       DismissedTurnsGenerating(p, s) => (p \notin dismissedWaitingRef' /\ claudeStatuses'[p] = "generating")]_vars

\* C12 amended: the update removes the path from the dismissed set and emits a view without
\* the path; the view that shows it as generating is the one queued for the 150 ms callback.
C12_UndismissedAndShownAfterReset ==
  [][\A p \in Paths, s \in StatusMaps :
       DismissedTurnsGenerating(p, s) =>
         /\ p \notin dismissedWaitingRef'
         /\ claudeStatuses'[p] = NONE
         /\ pendingResets' # <<>>
         /\ pendingResets'[Len(pendingResets')][p] = "generating"]_vars

\* the tab of a path was clicked while the path was waiting, and the update that reports the
\* path as generating has just been handled
C12_Witness ==
  \E p \in Paths :
    /\ debounce
    /\ IsActivePath(p)
    /\ claudeStatusesRef[p] = "generating"
    /\ p \notin dismissedWaitingRef
    /\ claudeStatuses[p] = NONE
    /\ pendingResets # <<>>
    /\ Head(pendingResets)[p] = "generating"

\* C13: a click on any shown tab whose path is raw-waiting dismisses the path and removes it
\* from the rendered view, whether or not the tab is the active one or a bundle id is known.
C13_ClickDismissesWaiting ==
  \A i \in ClickableIndices, p \in Paths :
    (/\ RefsInSync
     /\ HasWindow(windows, i)
     /\ windows[i + 1].name = lastSegment(p)
     /\ claudeStatusesRef[p] = "waiting")
    => ENABLED (handleTabClick(i) /\ p \in dismissedWaitingRef' /\ claudeStatuses'[p] = NONE)

\* path p goes from raw-generating to raw-waiting in the update newStatuses
Completes(p, newStatuses) ==
  /\ claudeStatusesRef[p] = "generating"
  /\ newStatuses[p] = "waiting"
  /\ ClaudeStatus(newStatuses)

\* C14: with notifications enabled and the editor in the background, the update that takes
\* a path from raw-generating to raw-waiting issues a request for it, and an update that
\* finds the path raw-waiting already issues none for it.
C14_OneNotificationPerCompletion ==
  [][\A p \in Paths, s \in StatusMaps :
       /\ (Completes(p, s) /\ notificationEnabledRef /\ ~isEditorActiveRef)
            => p \in sentNotifications'
       /\ (ClaudeStatus(s) /\ claudeStatusesRef[p] = "waiting") => p \notin sentNotifications']_vars

\* the request for a path has gone out and the path is still raw-waiting
C14_Witness ==
  \E p \in Paths :
    /\ p \in sentNotifications
    /\ claudeStatusesRef[p] = "waiting"
    /\ notificationEnabledRef
    /\ ~isEditorActiveRef

\* C15: a status update handled while the editor is in the foreground or notifications are
\* disabled issues no request, and no update issues a request for a path that it does not
\* take from raw-generating to raw-waiting.
C15_NoNotificationWhenGated ==
  [][\A s \in StatusMaps :
       ClaudeStatus(s) =>
         /\ (isEditorActiveRef \/ ~notificationEnabledRef) => sentNotifications' = {}
         /\ \A p \in sentNotifications' : claudeStatusesRef[p] = "generating" /\ s[p] = "waiting"]_vars

\* a path has completed while the editor was in the foreground or notifications were disabled,
\* and no request went out
C15_Witness ==
  \E p \in Paths :
    /\ claudeStatusesRef[p] = "waiting"
    /\ claudeStatuses[p] = "waiting"
    /\ sentNotifications = {}
    /\ isEditorActiveRef \/ ~notificationEnabledRef

\* C16: the update that takes a path from raw-waiting to raw-generating emits a view without
\* the path and schedules the view that shows it as generating, which the 150 ms callback
\* then renders as a separate update.
C16_ResetIsTwoUpdates ==
  [][/\ \A p \in Paths, s \in StatusMaps :
          (claudeStatusesRef[p] = "waiting" /\ s[p] = "generating" /\ ClaudeStatus(s))
            => /\ claudeStatuses'[p] = NONE
               /\ Len(pendingResets') = Len(pendingResets) + 1
               /\ pendingResets'[Len(pendingResets')][p] = "generating"
     /\ ResetFire => claudeStatuses' = Head(pendingResets)]_vars

\* the interim view of a reset is shown: the path is raw-generating, absent from the view,
\* and the view with the path as generating waits for the 150 ms callback
C16_Witness ==
  \E p \in Paths :
    /\ claudeStatusesRef[p] = "generating"
    /\ claudeStatuses[p] = NONE
    /\ Len(pendingResets) = 1
    /\ pendingResets[1][p] = "generating"

\* C17: a snapshot response keeps the rank of every ordered name, present or absent: a later
\* snapshot that contains two names of the order from before the response is sorted, by the
\* order left by the response, with the two in the same relative position as in that order.
C17_RankKeptWhileAbsent ==
  [][\A c \in inflight, r \in Snapshots :
       getEditorWindowsResolved(c, r) =>
         \A x, y \in Range(tabOrderRef), later \in Snapshots :
           (/\ {x, y} \subseteq nameSet(later)
            /\ orderIndex(tabOrderRef, x) < orderIndex(tabOrderRef, y))
           => LET view == sortWindowsByOrder(later, tabOrderRef')
              IN findIndex(view, x) < findIndex(view, y)]_vars

\* C18: only an explicit reorder writes a stored tab order: a step that changes the order
\* stored for some editor identity is a handleReorder step.
C18_OrderStoredOnlyByReorder ==
  [][(\E k \in OrderKeys : store'[k] # store[k])
       => \E f, t \in TabIndices : handleReorder(f, t)]_vars

\* a custom order is stored and a snapshot response has since changed the order in memory
C18_Witness ==
  /\ store[getOrderKey(currentBundleIdRef)] = <<"b", "a">>
  /\ orderLoadedRef
  /\ tabOrderRef # store[getOrderKey(currentBundleIdRef)]
  /\ inflight = {}

\* C19: a reorder stores the names of the view it leaves under the key of the editor; after a
\* restart the load for that editor yields the stored order; and the first snapshot response
\* after the load, if it holds the stored names, yields a view in the stored order.
C19_OrderSurvivesRestart ==
  [][/\ \A f, t \in TabIndices :
          handleReorder(f, t) => store'[getOrderKey(currentBundleIdRef)] = namesOf(windows')
     /\ \A c \in inflight :
          loadTabOrderResolved(c) => tabOrderRef' = store[getOrderKey(c.bundle)]
     /\ \A c \in inflight, r \in Snapshots, k \in OrderKeys :
          (/\ getEditorWindowsResolved(c, r)
           /\ windows = <<>> /\ windowsRef = <<>>
           /\ store[k] # <<>>
           /\ tabOrderRef = store[k]
           /\ nameSet(r) = Range(store[k]))
          => namesOf(windows') = store[k]]_vars

\* after a restart the first snapshot has produced a view in the stored custom order
C19_Witness ==
  /\ windowsRef = <<>>
  /\ namesOf(windows) = <<"b", "a">>
  /\ store[getOrderKey(currentBundleIdRef)] = <<"b", "a">>
  /\ tabOrderRef = <<"b", "a">>

\* C20: a snapshot response replaces the view by the sorted snapshot exactly when the names
\* of the sorted snapshot differ from those of the current view in length or at some
\* position; otherwise it changes neither the view nor the active index.
C20_ChangedIffNamesDiffer ==
  [][\A c \in inflight, r \in Snapshots :
       getEditorWindowsResolved(c, r) =>
         LET sorted == sortWindowsByOrder(r, tabOrderRef)
         IN IF namesOf(sorted) # namesOf(windows)
            THEN windows' = sorted
            ELSE windows' = windows /\ activeIndex' = activeIndex]_vars
\* name occurs in order
InOrder(order, name) == \E k \in DOMAIN order : order[k] = name
PositionIn(order, name) == CHOOSE k \in DOMAIN order : order[k] = name

\* sorted is a permutation of ws with the ordered names first, by position in order, and the
\* other names after them, alphabetically
IsSortedByOrder(sorted, ws, order) ==
  /\ Len(sorted) = Len(ws)
  /\ Range(sorted) = Range(ws)
  /\ \A i, j \in DOMAIN sorted :
       i < j =>
         LET x == sorted[i].name
             y == sorted[j].name
         IN /\ InOrder(order, y) => (InOrder(order, x) /\ PositionIn(order, x) < PositionIn(order, y))
            /\ ~InOrder(order, x) => (~InOrder(order, y) /\ NameRank[x] < NameRank[y])

\* C21: whatever snapshot the next response carries, the list it is sorted into by the order
\* in memory is a permutation of the snapshot with the windows named in the order first, by
\* ascending position, then the other windows by ascending name; and every enumeration of
\* the same windows is sorted into the same list.
C21_SortedByOrderThenName ==
  \A r \in SortSnapshots :
    /\ IsSortedByOrder(sortWindowsByOrder(r, tabOrderRef), r, tabOrderRef)
    /\ \A r2 \in SortSnapshots :
         Range(r2) = Range(r) =>
           sortWindowsByOrder(r2, tabOrderRef) = sortWindowsByOrder(r, tabOrderRef)

\* the stored order names one of three windows: the view shows it first and the two unseen
\* windows after it, alphabetically
C21_Witness ==
  /\ store[getOrderKey(currentBundleIdRef)] = <<"c">>
  /\ namesOf(windows) = <<"c", "a", "b">>
  /\ tabOrderRef = <<"c", "a", "b">>

\* C22: a snapshot response with n windows leaves the active index at n - 1 when n > 0 and the
\* index was n or more, and leaves it unchanged in every other case.
C22_RefreshOnlyClamps ==
  [][\A c \in inflight, r \in Snapshots :
       getEditorWindowsResolved(c, r) =>
         activeIndex' = IF Len(r) > 0 /\ activeIndex >= Len(r) THEN Len(r) - 1 ELSE activeIndex]_vars

\* C23: a click on the tab at the active index the handler reads (activeIndexRef.current, the
\* index on screen) does nothing: the handler takes no step, so the active index, the click
\* time, the dismissed set, the rendered statuses and the timers stay and no focus is requested.
C23_ClickOnActiveTabIsNoOp ==
  \A i \in ClickableIndices : i = activeIndexRef => ~ENABLED handleTabClick(i)

\* the active tab shows a waiting badge with its timer pending and the editor is known: a
\* click that was handled would dismiss the badge, cancel the timer and request a focus
C23_Witness ==
  \E p \in Paths :
    /\ RefsInSync
    /\ IsActivePath(p)
    /\ currentBundleIdRef # NULL
    /\ claudeStatusesRef[p] = "waiting"
    /\ claudeStatuses[p] = "waiting"
    /\ p \in waitingTimersRef
    /\ ~debounce

\* C24: when get_editor_windows or get_editor_state rejects, the handler that issued the query
\* ends with the rendered window list and the active index as they were.
C24_FailedQueryLeavesView ==
  [][\A c \in inflight :
       (getEditorWindowsRejected(c) \/ syncActiveTabRejected(c))
         => (windows' = windows /\ activeIndex' = activeIndex)]_vars

\* a query is outstanding while two tabs are shown and the second one is active
C24_Witness ==
  /\ \E c \in inflight : c.pc = "invoke"
  /\ Len(windows) = 2
  /\ activeIndex = 1
  /\ RefsInSync

\* C25: an entry of a status payload whose value is neither waiting nor generating is dropped:
\* neither the raw map nor the rendered map ever holds a path with such a value.
C25_MalformedEntriesDropped ==
  \A p \in Paths : claudeStatusesRef[p] \in StatusValues /\ claudeStatuses[p] \in StatusValues

\* a click on the notification of path p, requested by the latest status update, is taken up
\* by the handler whenever a handler can be started
ClickIsHandled(p) ==
  (p \in sentNotifications /\ CanSuspend) => ENABLED notificationClicked(p)

\* the step of a notification click that reads the raw status of its path: a raw-waiting path
\* is added to the dismissed set, removed from the rendered map and left without a timer,
\* and for any other path the dismissed set and the rendered map stay as they are
ClickStepDismissesWaiting ==
  \A c \in inflight :
    notificationClickedShown(c) =>
      IF claudeStatusesRef[c.path] = "waiting"
      THEN /\ c.path \in dismissedWaitingRef'
           /\ claudeStatuses'[c.path] = NONE
           /\ c.path \notin waitingTimersRef'
      ELSE /\ dismissedWaitingRef' = dismissedWaitingRef
           /\ claudeStatuses' = claudeStatuses

\* C26: every click on the notification of a path P is handled, and the handler dismisses P
\* if P is raw-waiting when it reads the raw map and changes neither the dismissed set nor
\* the rendered map otherwise.
C26_NotificationClickDismissesWaiting ==
  /\ [](\A p \in Paths : ClickIsHandled(p))
  /\ [][ClickStepDismissesWaiting]_vars

\* the handler of a click on the notification of path p is under way
ClickUnderWay(p) == \E c \in inflight : c.fn = "notificationClicked" /\ c.path = p

\* the focus step of a notification click: if the window list on screen holds a window named
\* after the last segment of the path, one focus command goes out, for the id of that window
FocusStepFocusesProjectWindow ==
  \A c \in inflight :
    notificationClickedFocus(c) =>
      \A i \in DOMAIN windowsRef :
        windowsRef[i].name = lastSegment(c.path)
          => focusRequests' = <<focusEditorWindow(c.bundle, windowsRef[i].id)>>

\* the window list on screen holds a window named after the last segment of path p
HasProjectWindow(p) == \E i \in DOMAIN windowsRef : windowsRef[i].name = lastSegment(p)

\* C27: a click on the notification of a path P whose window is in the window list is handled,
\* its handler reaches its focus step, and that step requests the focus of the window named
\* after the last segment of P whenever the window list holds one.
C27_NotificationClickFocusesWindow ==
  /\ [](\A p \in Paths : HasProjectWindow(p) => ClickIsHandled(p))
  /\ \A p \in Paths : ClickUnderWay(p) ~> ~ClickUnderWay(p)
  /\ [][FocusStepFocusesProjectWindow]_vars

\* after a switch-to-tab step the timers are those of tab k of the list on screen: a timer is
\* pending for a path exactly if the path is raw-waiting, not dismissed and named after tab k
TimerResyncedFor(k) ==
  \A p \in Paths :
    p \in waitingTimersRef' <=>
      /\ claudeStatusesRef[p] = "waiting"
      /\ p \notin dismissedWaitingRef
      /\ lastSegment(p) = windowsRef[k + 1].name

\* a switch-to-tab event with a payload that is not less than the number of tabs on screen
\* changes nothing
SwitchBeyondTabsIsNoOp ==
  \A k \in TabIndices : k >= Len(windowsRef) => ~ENABLED SwitchToTab(k)

\* C28: a switch-to-tab event with payload k less than the number of tabs sets the active
\* index to k, resynchronises the timer for tab k and requests the focus of the window at
\* position k; with k not less than the number of tabs it changes nothing.
C28_SwitchToTabFocusesWindow ==
  /\ [][\A k \in TabIndices :
          SwitchToTab(k) =>
            /\ activeIndex' = k
            /\ TimerResyncedFor(k)
            /\ Len(focusRequests') = 1
            /\ focusRequests'[1].window_id = windowsRef[k + 1].id]_vars
  /\ []SwitchBeyondTabsIsNoOp

\* C29: a click on a tab i of the list on screen other than the active one sets the active
\* index to i in the handler itself, records the click time and requests exactly one focus,
\* for the id of the window at position i, without suspending the handler.
C29_ClickFocusesWindow ==
  [][\A i \in ClickableIndices :
       (handleTabClick(i) /\ HasWindow(windowsRef, i)) =>
         /\ activeIndex' = i
         /\ activeIndexRef' = i
         /\ debounce'
         /\ inflight' = inflight
         /\ Len(focusRequests') = 1
         /\ focusRequests'[1].window_id = windowsRef[i + 1].id]_vars

\* C30: the timer callback of path P reads the raw map at the time it fires: if P is
\* raw-waiting it adds P to the dismissed set and removes P from the rendered map, otherwise
\* it leaves the dismissed set and the rendered map as they are; either way no timer is
\* pending for P afterwards.
C30_TimerFireDismissesIfStillWaiting ==
  [][\A p \in Paths :
       TimerFire(p) =>
         /\ p \notin waitingTimersRef'
         /\ IF claudeStatusesRef[p] = "waiting"
            THEN p \in dismissedWaitingRef' /\ claudeStatuses'[p] = NONE
            ELSE dismissedWaitingRef' = dismissedWaitingRef /\ claudeStatuses' = claudeStatuses]_vars

\* a raw-waiting path is dismissed although no bundle id is known, so neither a tab click nor
\* a notification click can have dismissed it: its timer has fired
C30_Witness ==
  \E p \in Paths :
    /\ currentBundleIdRef = NULL
    /\ p \in dismissedWaitingRef
    /\ claudeStatusesRef[p] = "waiting"
    /\ claudeStatuses[p] = NONE
    /\ waitingTimersRef = {}

\* C31: when the 150 ms reset callback runs, the view it renders reflects every status
\* update, click dismissal and timer dismissal handled during the delay: it is the current
\* raw map without the dismissed waiting paths, not the map captured when the delay began.
C31_ResetCallbackRendersCurrentState ==
  [][ResetFire => claudeStatuses' = filterDismissed(claudeStatusesRef, dismissedWaitingRef)]_vars

\* a status update reports p as waiting while the raw map holds it as generating
TurnsWaitingAgain(p, newStatuses) ==
  /\ claudeStatusesRef[p] = "generating"
  /\ newStatuses[p] = "waiting"
  /\ ClaudeStatus(newStatuses)

\* p is raw-waiting and undismissed before and after the step: no dismissal and no raw
\* change of p happens in it
StaysUndismissedWaiting(p) ==
  /\ claudeStatusesRef[p] = "waiting" /\ p \notin dismissedWaitingRef
  /\ claudeStatusesRef'[p] = "waiting" /\ p \notin dismissedWaitingRef'

\* C32: a dismissal covers one waiting episode.  Once a dismissed path has been reported as
\* generating, the update that reports it as waiting again shows it as waiting, and it stays
\* shown as waiting through every step that neither dismisses it nor changes its raw status.
C32_DismissalCoversOneEpisode ==
  [][\A p \in Paths :
       /\ \A s \in StatusMaps : TurnsWaitingAgain(p, s) => claudeStatuses'[p] = "waiting"
       /\ (StaysUndismissedWaiting(p) /\ claudeStatuses[p] = "waiting")
            => claudeStatuses'[p] = "waiting"]_vars

\* C33: a tab click clears waiting badges only: a path that is raw-generating, the one of the
\* clicked tab included, keeps its entry in the rendered view and stays out of the dismissed set.
C33_ClickKeepsGeneratingBadge ==
  [][\A i \in ClickableIndices, p \in Paths :
       (handleTabClick(i) /\ claudeStatusesRef[p] = "generating")
         => (claudeStatuses'[p] = claudeStatuses[p] /\ p \notin dismissedWaitingRef')]_vars

\* the tab of a generating project was clicked with the editor known: the window was focused
\* and the generating badge is still shown
C33_Witness ==
  \E p \in Paths :
    /\ debounce
    /\ focusRequests # <<>>
    /\ RefsInSync
    /\ IsActivePath(p)
    /\ focusRequests[1].window_id = windows[activeIndex + 1].id
    /\ claudeStatusesRef[p] = "generating"
    /\ claudeStatuses[p] = "generating"
    /\ p \notin dismissedWaitingRef

\* C34: whenever a focus sync adopts a new active index, the window of the rendered view at
\* that index has the name of the frontmost window of the query result, whether or not the
\* queried window list is the rendered one.
C34_AdoptedIndexShowsFrontmost ==
  [][\A c \in inflight, st \in EditorStates :
       (syncActiveTabResolved(c, st) /\ activeIndexRef' # activeIndexRef)
         => /\ HasWindow(windows', activeIndex')
            /\ windows'[activeIndex' + 1].name = st.windows[st.active_index + 1].name]_vars

\* ws without the window at the 0-based position index
removeAt(ws, index) ==
  [i \in 1..(Len(ws) - 1) |-> IF i <= index THEN ws[i] ELSE ws[i + 1]]

ReorderInRange(fromIndex, toIndex) ==
  /\ fromIndex >= 0 /\ fromIndex < Len(windowsRef)
  /\ toIndex >= 0 /\ toIndex < Len(windowsRef)

\* C35: handleReorder(from, to) with both indices in range puts the window of position from at
\* position to, keeps the other windows in their relative order, and stores the names of the
\* new sequence under the key of the current editor; with an index out of range it does nothing.
C35_ReorderMovesAndStores ==
  /\ [](\A f, t \in ReorderIndices : ~ReorderInRange(f, t) => ~ENABLED handleReorder(f, t))
  /\ [][\A f, t \in ReorderIndices :
          handleReorder(f, t) =>
            /\ ReorderInRange(f, t)
            /\ Len(windows') = Len(windowsRef)
            /\ windows'[t + 1] = windowsRef[f + 1]
            /\ removeAt(windows', t) = removeAt(windowsRef, f)
            /\ store' = [store EXCEPT ![getOrderKey(currentBundleIdRef)] = namesOf(windows')]]_vars

\* three tabs of editor X were dragged into an order that no sort produces; it is stored
C35_Witness ==
  /\ currentBundleIdRef = "X"
  /\ namesOf(windows) = <<"b", "c", "a">>
  /\ store["X"] = <<"b", "c", "a">>
  /\ store["default"] = <<>>
  /\ RefsInSync

\* C36: handleReorder never changes which window is active: with the active index in range,
\* the window at the active index after the reorder has the name of the one before it.
C36_ReorderKeepsActiveWindow ==
  [][\A f, t \in ReorderIndices :
       (handleReorder(f, t) /\ HasWindow(windowsRef, activeIndexRef))
         => /\ HasWindow(windows', activeIndex')
            /\ windows'[activeIndex' + 1].name = windowsRef[activeIndexRef + 1].name]_vars

\* the middle tab of three is active and sits where a drag has put it
C36_Witness ==
  /\ Len(windows) = 3
  /\ namesOf(windows) = <<"c", "a", "b">>
  /\ activeIndex = 1
  /\ tabOrderRef = namesOf(windows)
  /\ RefsInSync

\* C37: whenever no handler is suspended, the rendered view is non-empty and the refs hold the
\* rendered state, the active index is a position of the view: 0 <= activeIndex < Len(windows).
C37_ActiveIndexInRange ==
  (inflight = {} /\ RefsInSync /\ Len(windows) > 0) => (0 <= activeIndex /\ activeIndex < Len(windows))

\* C38: a status update that omits a path held as raw-generating or raw-waiting leaves the
\* path, right after the update, absent from the rendered view, outside the dismissed set and
\* without a pending auto-dismiss timer.
C38_OmittedPathIsCleared ==
  [][\A p \in Paths, s \in StatusMaps :
       (ClaudeStatus(s) /\ claudeStatusesRef[p] \in {"generating", "waiting"} /\ s[p] = NONE)
         => /\ claudeStatuses'[p] = NONE
            /\ p \notin dismissedWaitingRef'
            /\ p \notin waitingTimersRef']_vars

\* a path that was reported as generating has just been omitted by an update: the raw map
\* and the view hold no entry for it while the reset callback armed before is still pending
C38_Witness ==
  \E p \in Paths :
    /\ claudeStatusesRef[p] = NONE
    /\ claudeStatuses[p] = NONE
    /\ pendingResets # <<>>
    /\ Head(pendingResets)[p] = "generating"
    /\ p \notin dismissedWaitingRef
    /\ p \notin waitingTimersRef

\* the latest app-activated event named the editor or the tab manager
LastActivatedShowsTabBar == isEditorActiveRef \/ isTabManagerActiveRef
\* the latest app-activated event named another application on the primary screen
LastActivatedHidesTabBar == ~isEditorActiveRef /\ ~isTabManagerActiveRef /\ lastOnPrimaryScreen

\* C39: once every app-activated handler has run to completion, the tab bar is shown if the
\* latest activation was the editor or the tab manager and hidden if it was another
\* application on the primary screen; the handler of another application on a secondary
\* screen leaves the visibility as it is.
C39_VisibilityMatchesLastActivation ==
  /\ [](inflight = {} => /\ LastActivatedShowsTabBar => tabBarVisible
                         /\ LastActivatedHidesTabBar => ~tabBarVisible)
  /\ [][\A b \in Bundles : appActivated("other", b, FALSE) => UNCHANGED <<tabBarVisible, inflight>>]_vars

\* C40: once an activation has replaced editor X by editor Y, the next reconciliation of Y's
\* windows sorts them by the order stored under Y's key, whatever order X left in memory; and
\* a reorder writes only the key of the current editor, so the order stored for X stays.
C40_EditorChangeUsesOwnOrder ==
  [][/\ \A c \in inflight, r \in Snapshots :
          (getEditorWindowsResolved(c, r) /\ editorChanged /\ c.bundle = currentBundleIdRef)
            => sortWindowsByOrder(r, tabOrderRef)
                 = sortWindowsByOrder(r, store[getOrderKey(currentBundleIdRef)])
     /\ \A f, t \in TabIndices :
          handleReorder(f, t)
            => \A k \in OrderKeys : k # getOrderKey(currentBundleIdRef) => store'[k] = store[k]]_vars
====
